---- MODULE Spec2Model ----
(***************************************************************************)
(* State-machine model of the streaming BLAKE-512 hasher of                *)
(* bloock-blake-rs (src/src/lib.rs, src/src/helpers.rs).                   *)
(*                                                                         *)
(* A u64 is a tuple of four 16-bit limbs, most significant first, so that  *)
(* the 64-bit width, the wrap-around of the counter and the byte order of  *)
(* every serialisation are computed rather than assumed.  A byte sequence  *)
(* is a TLA+ sequence of numbers in 0..255 (index 1 is Rust index 0).      *)
(***************************************************************************)
EXTENDS Integers, Sequences, FiniteSets, TLC

VARIABLES
    hasher,    \* the caller's Blake512 value
    msg,       \* history: bytes written since construction / last reset
    fed,       \* history: number of bytes written since construction
    resalted,  \* history: salt replaced after a block was compressed
    last,      \* the last public call and its result
    nwrites,   \* number of write calls so far
    vector     \* the test input the caller hashes (0: the synthetic stream)

vars == <<hasher, msg, fed, resalted, last, nwrites, vector>>

---------------------------------------------------------------------------
(* Bounds of the exploration *)

MaxWrites == 2

\* lengths of the byte sequences handed to write
WriteLens == {0, 1, 17, 111, 256}
\* lengths of the byte sequences handed to set_salt
SaltLens == {31, 32, 33}
\* prefixes handed to sum
Prefixes == {<< >>, <<222, 173>>}

---------------------------------------------------------------------------
(* 64-bit words *)

BLOCK_SIZE == 128

Limb == 256 * 256

Min(a, b) == IF a < b THEN a ELSE b

\* the u64 of a small natural number (a usize/u64 literal or `nx << 3`)
U64Of(n) == <<0, 0, n \div Limb, n % Limb>>

Zero64 == U64Of(0)

\* a < b on u64
Lt64(a, b) ==
    \E k \in 1..4 : a[k] < b[k] /\ \A j \in 1..(k - 1) : a[j] = b[j]

\* a - b modulo 2^64 (u64::wrapping_sub)
WrappingSub(a, b) ==
    LET r4 == a[4] - b[4]
        c4 == IF r4 < 0 THEN 1 ELSE 0
        r3 == a[3] - b[3] - c4
        c3 == IF r3 < 0 THEN 1 ELSE 0
        r2 == a[2] - b[2] - c3
        c2 == IF r2 < 0 THEN 1 ELSE 0
        r1 == a[1] - b[1] - c2
    IN  <<(r1 + Limb) % Limb, (r2 + Limb) % Limb, (r3 + Limb) % Limb, (r4 + Limb) % Limb>>

\* a + b modulo 2^64 (u64::wrapping_add)
WrappingAdd(a, b) ==
    LET r4 == a[4] + b[4]
        r3 == a[3] + b[3] + (r4 \div Limb)
        r2 == a[2] + b[2] + (r3 \div Limb)
        r1 == a[1] + b[1] + (r2 \div Limb)
    IN  <<r1 % Limb, r2 % Limb, r3 % Limb, r4 % Limb>>

\* a + b leaves 0..2^64-1
AddOverflows(a, b) == Lt64(WrappingAdd(a, b), a)

\* `(w >> shift) as u8` for shift a multiple of 8
ShrU8(w, shift) == (w[4 - (shift \div 16)] \div (IF shift % 16 = 8 THEN 256 ELSE 1)) % 256

\* `u64::from(b[1]) << 56 | ... | u64::from(b[8])` for eight bytes b
FromBytes(b) ==
    <<b[1] * 256 + b[2], b[3] * 256 + b[4], b[5] * 256 + b[6], b[7] * 256 + b[8]>>

IV512 ==
    << <<\H6A09, \HE667, \HF3BC, \HC908>>,
       <<\HBB67, \HAE85, \H84CA, \HA73B>>,
       <<\H3C6E, \HF372, \HFE94, \HF82B>>,
       <<\HA54F, \HF53A, \H5F1D, \H36F1>>,
       <<\H510E, \H527F, \HADE6, \H82D1>>,
       <<\H9B05, \H688C, \H2B3E, \H6C1F>>,
       <<\H1F83, \HD9AB, \HFB41, \HBD6B>>,
       <<\H5BE0, \HCD19, \H137E, \H2179>> >>

IV384 ==
    << <<\HCBBB, \H9D5D, \HC105, \H9ED8>>,
       <<\H629A, \H292A, \H367C, \HD507>>,
       <<\H9159, \H015A, \H3070, \HDD17>>,
       <<\H152F, \HECD8, \HF70E, \H5939>>,
       <<\H6733, \H2667, \HFFC0, \H0B31>>,
       <<\H8EB4, \H4A87, \H6858, \H1511>>,
       <<\HDB0C, \H2E0D, \H64F9, \H8FA7>>,
       <<\H47B5, \H481D, \HBEFA, \H4FA4>> >>

Zeros(n) == [i \in 1..n |-> 0]

---------------------------------------------------------------------------
(* The hasher value *)

\* impl Default for Blake512.  `blocks` is a history field: the compressions
\* performed on this value since construction or the last reset, each with the
\* block, the counter, the skip flag and the salt the compression function
\* was given.
Default ==
    [ hash_size |-> 512,
      h         |-> IV512,
      s         |-> <<Zero64, Zero64, Zero64, Zero64>>,
      t         |-> Zero64,
      nullt     |-> FALSE,
      x         |-> Zeros(BLOCK_SIZE),
      nx        |-> 0,
      blocks    |-> <<>> ]

\* Blake512::size
Size(self) == self.hash_size \div 8

\* helpers::copy: the destination after the copy and the number of elements copied
Copy(dst, src) ==
    LET len == Min(Len(src), Len(dst))
    IN  [ dst |-> SubSeq(src, 1, len) \o SubSeq(dst, len + 1, Len(dst)),
          len |-> len ]

\* p[n..]
From(p, n) == SubSeq(p, n + 1, Len(p))

---------------------------------------------------------------------------
(* The compression function (mod block).  Its file is not part of the      *)
(* source tree; it is modelled from section 4.2 of the design document and *)
(* the algorithm the document names, BLAKE-512: per 128-byte block the     *)
(* counter advances by 1024 bits, the block is decoded into sixteen        *)
(* big-endian words, and sixteen rounds of the quarter round G mix chain   *)
(* value, salt, constants, counter (left out when nullt is set) and        *)
(* message words.                                                          *)
(*                                                                         *)
(* Sixteen rounds per block are too many to evaluate on every block of     *)
(* every interleaving of calls.  Where a behaviour hashes a test input     *)
(* (vector # 0) the compression is BLAKE-512's; in the interleavings of    *)
(* the synthetic stream (vector = 0), whose properties compare runs with   *)
(* each other and never with a listed digest, the rounds are replaced by   *)
(* Mix, a multiply-add mixing of the same inputs.                          *)

\* a ^ b on 4-bit values: XorNibble[a + 1][b + 1]
XorNibble ==
    <<
       << 0,  1,  2,  3,  4,  5,  6,  7,  8,  9, 10, 11, 12, 13, 14, 15>>,
       << 1,  0,  3,  2,  5,  4,  7,  6,  9,  8, 11, 10, 13, 12, 15, 14>>,
       << 2,  3,  0,  1,  6,  7,  4,  5, 10, 11,  8,  9, 14, 15, 12, 13>>,
       << 3,  2,  1,  0,  7,  6,  5,  4, 11, 10,  9,  8, 15, 14, 13, 12>>,
       << 4,  5,  6,  7,  0,  1,  2,  3, 12, 13, 14, 15,  8,  9, 10, 11>>,
       << 5,  4,  7,  6,  1,  0,  3,  2, 13, 12, 15, 14,  9,  8, 11, 10>>,
       << 6,  7,  4,  5,  2,  3,  0,  1, 14, 15, 12, 13, 10, 11,  8,  9>>,
       << 7,  6,  5,  4,  3,  2,  1,  0, 15, 14, 13, 12, 11, 10,  9,  8>>,
       << 8,  9, 10, 11, 12, 13, 14, 15,  0,  1,  2,  3,  4,  5,  6,  7>>,
       << 9,  8, 11, 10, 13, 12, 15, 14,  1,  0,  3,  2,  5,  4,  7,  6>>,
       <<10, 11,  8,  9, 14, 15, 12, 13,  2,  3,  0,  1,  6,  7,  4,  5>>,
       <<11, 10,  9,  8, 15, 14, 13, 12,  3,  2,  1,  0,  7,  6,  5,  4>>,
       <<12, 13, 14, 15,  8,  9, 10, 11,  4,  5,  6,  7,  0,  1,  2,  3>>,
       <<13, 12, 15, 14,  9,  8, 11, 10,  5,  4,  7,  6,  1,  0,  3,  2>>,
       <<14, 15, 12, 13, 10, 11,  8,  9,  6,  7,  4,  5,  2,  3,  0,  1>>,
       <<15, 14, 13, 12, 11, 10,  9,  8,  7,  6,  5,  4,  3,  2,  1,  0>> >>

\* a ^ b on 16-bit limbs
XorLimb(a, b) ==
      XorNibble[(a \div 4096) + 1][(b \div 4096) + 1] * 4096
    + XorNibble[((a \div 256) % 16) + 1][((b \div 256) % 16) + 1] * 256
    + XorNibble[((a \div 16) % 16) + 1][((b \div 16) % 16) + 1] * 16
    + XorNibble[(a % 16) + 1][(b % 16) + 1]

\* a ^ b on u64
Xor64(a, b) ==
    <<XorLimb(a[1], b[1]), XorLimb(a[2], b[2]), XorLimb(a[3], b[3]), XorLimb(a[4], b[4])>>

\* w.rotate_right(r) on u64
RotR(w, r) ==
    LET q    == r \div 16
        k    == r % 16
        lo   == 2 ^ k
        hi   == 2 ^ (16 - k)
        l(i) == w[((i - 1 - q + 8) % 4) + 1]
        f(i) == (l(i - 1) % lo) * hi + (l(i) \div lo)
    IN  <<f(1), f(2), f(3), f(4)>>

\* the sixteen round constants of BLAKE-512
CST ==
    <<
       <<\H243F, \H6A88, \H85A3, \H08D3>>,
       <<\H1319, \H8A2E, \H0370, \H7344>>,
       <<\HA409, \H3822, \H299F, \H31D0>>,
       <<\H082E, \HFA98, \HEC4E, \H6C89>>,
       <<\H4528, \H21E6, \H38D0, \H1377>>,
       <<\HBE54, \H66CF, \H34E9, \H0C6C>>,
       <<\HC0AC, \H29B7, \HC97C, \H50DD>>,
       <<\H3F84, \HD5B5, \HB547, \H0917>>,
       <<\H9216, \HD5D9, \H8979, \HFB1B>>,
       <<\HD131, \H0BA6, \H98DF, \HB5AC>>,
       <<\H2FFD, \H72DB, \HD01A, \HDFB7>>,
       <<\HB8E1, \HAFED, \H6A26, \H7E96>>,
       <<\HBA7C, \H9045, \HF12C, \H7F99>>,
       <<\H24A1, \H9947, \HB391, \H6CF7>>,
       <<\H0801, \HF2E2, \H858E, \HFC16>>,
       <<\H6369, \H20D8, \H7157, \H4E69>> >>

\* the message-word permutation of round r is SIGMA[(r % 10) + 1]
SIGMA ==
    <<
       << 0,  1,  2,  3,  4,  5,  6,  7,  8,  9, 10, 11, 12, 13, 14, 15>>,
       <<14, 10,  4,  8,  9, 15, 13,  6,  1, 12,  0,  2, 11,  7,  5,  3>>,
       <<11,  8, 12,  0,  5,  2, 15, 13, 10, 14,  3,  6,  7,  1,  9,  4>>,
       << 7,  9,  3,  1, 13, 12, 11, 14,  2,  6,  5, 10,  4,  0, 15,  8>>,
       << 9,  0,  5,  7,  2,  4, 10, 15, 14,  1, 11, 12,  6,  8,  3, 13>>,
       << 2, 12,  6, 10,  0, 11,  8,  3,  4, 13,  7,  5, 15, 14,  1,  9>>,
       <<12,  5,  1, 15, 14, 13,  4, 10,  0,  7,  6,  3,  9,  2,  8, 11>>,
       <<13, 11,  7, 14, 12,  1,  3,  9,  5,  0, 15,  4,  8,  6,  2, 10>>,
       << 6, 15, 14,  9, 11,  3,  0,  8, 12,  2, 13,  7,  1,  4, 10,  5>>,
       <<10,  2,  8,  4,  7,  6,  1,  5, 15, 11,  9, 14,  3, 12, 13,  0>> >>

\* the words a, b, c, d of the working state that quarter round i of a round
\* works on: the four columns, then the four diagonals
QUARTERS ==
    << <<1, 5,  9, 13>>, <<2, 6, 10, 14>>, <<3, 7, 11, 15>>, <<4, 8, 12, 16>>,
       <<1, 6, 11, 16>>, <<2, 7, 12, 13>>, <<3, 8,  9, 14>>, <<4, 5, 10, 15>> >>

\* one half of the quarter round on q = <<a, b, c, d>> with the message word x
\* already combined with its constant:
\*   a += b + x;  d = (d ^ a) >>> r1;  c += d;  b = (b ^ c) >>> r2
HalfB(q, a, d, c, r2) == <<a, RotR(Xor64(q[2], c), r2), c, d>>

HalfC(q, a, d, r2) == HalfB(q, a, d, WrappingAdd(q[3], d), r2)

HalfD(q, a, r1, r2) == HalfC(q, a, RotR(Xor64(q[4], a), r1), r2)

Half(q, x, r1, r2) == HalfD(q, WrappingAdd(WrappingAdd(q[1], q[2]), x), r1, r2)

\* the quarter round: rotations by 32 and 25, then by 16 and 11
G(q, x, y) == Half(Half(q, x, 32, 25), y, 16, 11)

\* the working state v with the words of quarter qt replaced by q
Put(v, qt, q) ==
    [v EXCEPT ![qt[1]] = q[1], ![qt[2]] = q[2], ![qt[3]] = q[3], ![qt[4]] = q[4]]

\* quarter round i (from 0) of round r (from 0) on the working state v with
\* message words mw
Quarter(v, mw, r, i) ==
    Put(v, QUARTERS[i + 1],
        G(<<v[QUARTERS[i + 1][1]], v[QUARTERS[i + 1][2]],
            v[QUARTERS[i + 1][3]], v[QUARTERS[i + 1][4]]>>,
          Xor64(mw[SIGMA[(r % 10) + 1][2 * i + 1] + 1],
                CST[SIGMA[(r % 10) + 1][2 * i + 2] + 1]),
          Xor64(mw[SIGMA[(r % 10) + 1][2 * i + 2] + 1],
                CST[SIGMA[(r % 10) + 1][2 * i + 1] + 1])))

\* quarter rounds i .. 7 of round r
RECURSIVE Round(_, _, _, _)
Round(v, mw, r, i) ==
    IF i = 8 \/ Len(v) # 16 THEN v ELSE Round(Quarter(v, mw, r, i), mw, r, i + 1)

\* rounds r .. 15 on the sixteen words of v
RECURSIVE Rounds(_, _, _)
Rounds(v, mw, r) ==
    IF r = 16 \/ Len(v) # 16 THEN v ELSE Rounds(Round(v, mw, r, 0), mw, r + 1)

\* words i .. 16 of block m, decoded big-endian
RECURSIVE Words(_, _)
Words(m, i) ==
    IF i > 16 THEN << >>
    ELSE <<FromBytes(SubSeq(m, 8 * (i - 1) + 1, 8 * i))>> \o Words(m, i + 1)

\* words i .. 8 of the new chain value: h ^ s ^ v[i] ^ v[i + 8]
RECURSIVE Fold(_, _, _, _)
Fold(h, s, v, i) ==
    IF i > 8 THEN << >>
    ELSE <<Xor64(Xor64(h[i], s[((i - 1) % 4) + 1]), Xor64(v[i], v[i + 8]))>>
         \o Fold(h, s, v, i + 1)

\* words i .. 4 of the salt combined with the constants
RECURSIVE Salted(_, _)
Salted(s, i) ==
    IF i > 4 THEN << >> ELSE <<Xor64(s[i], CST[i])>> \o Salted(s, i + 1)

\* the working state before the rounds: chain value, salt, counter (unless
\* nullt) and constants
Start(h, s, t, nullt) ==
    h \o Salted(s, 1)
      \o (IF nullt THEN <<CST[5], CST[6]>> ELSE <<Xor64(t, CST[5]), Xor64(t, CST[6])>>)
      \o <<CST[7], CST[8]>>

\* the BLAKE-512 compression of block m into the chain value h
Blake512Compress(h, m, s, t, nullt) ==
    Fold(h, s, Rounds(Start(h, s, t, nullt), Words(m, 1), 0), 1)

\* limb k of big-endian message word i of block m
MsgLimb(m, i, k) == m[8 * (i - 1) + 2 * k - 1] * 256 + m[8 * (i - 1) + 2 * k]

\* the stand-in for the rounds: every limb of the new chain value depends on
\* the chain value, the block, the salt and the counter
Mix(h, m, s, t, nullt) ==
    LET ctr == IF nullt THEN Zero64 ELSE t
        limb(i, k) ==
            ( 33 * h[i][k] + 7 * h[(i % 8) + 1][k]
              + 5 * MsgLimb(m, i, k) + 3 * MsgLimb(m, i + 8, k)
              + 11 * s[((i - 1) % 4) + 1][k] + 13 * ctr[k] + k ) % Limb
        word(i) == <<limb(i, 1), limb(i, 2), limb(i, 3), limb(i, 4)>>
    IN  <<word(1), word(2), word(3), word(4), word(5), word(6), word(7), word(8)>>

Compress(h, m, s, t, nullt) ==
    IF vector = 0 THEN Mix(h, m, s, t, nullt) ELSE Blake512Compress(h, m, s, t, nullt)

RECURSIVE Block(_, _)
Block(self, p) ==
    IF Len(p) < BLOCK_SIZE THEN self
    ELSE LET m == SubSeq(p, 1, BLOCK_SIZE)
             t == WrappingAdd(self.t, U64Of(1024))
         IN  Block([self EXCEPT !.t = t,
                                !.h = Compress(self.h, m, self.s, t, self.nullt),
                                !.blocks = Append(@, [m |-> m, t |-> t, nullt |-> self.nullt,
                                                     s |-> self.s])],
                   From(p, BLOCK_SIZE))

---------------------------------------------------------------------------
(* Blake512::write *)

\* WriteFill with `self.nx = copy(..)` in place of `self.nx += copy(..)`
WriteFillAssign(self, p) ==
    IF self.nx > 0
    THEN LET n == Min(Len(p), BLOCK_SIZE - self.nx)
             c == Copy(From(self.x, self.nx), p)
             a == [self EXCEPT !.x = SubSeq(self.x, 1, self.nx) \o c.dst,
                               !.nx = c.len]
             b == IF a.nx = BLOCK_SIZE
                  THEN [Block(a, a.x) EXCEPT !.nx = 0]
                  ELSE a
         IN  [d |-> b, p |-> From(p, n)]
    ELSE [d |-> self, p |-> p]

\* WriteFill without `self.nx = 0` after the buffer is compressed
WriteFillNoClear(self, p) ==
    IF self.nx > 0
    THEN LET n == Min(Len(p), BLOCK_SIZE - self.nx)
             c == Copy(From(self.x, self.nx), p)
             a == [self EXCEPT !.x = SubSeq(self.x, 1, self.nx) \o c.dst,
                               !.nx = @ + c.len]
             b == IF a.nx = BLOCK_SIZE
                  THEN Block(a, a.x)
                  ELSE a
         IN  [d |-> b, p |-> From(p, n)]
    ELSE [d |-> self, p |-> p]

\* `if self.nx > 0 { ... }`: the hasher and the rest of p after topping up the
\* buffer and compressing it when it is full
WriteFill(self, p) ==
    IF self.nx > 0
    THEN LET n == Min(Len(p), BLOCK_SIZE - self.nx)
             c == Copy(From(self.x, self.nx), p)
             a == [self EXCEPT !.x = SubSeq(self.x, 1, self.nx) \o c.dst,
                               !.nx = @ + c.len]
             b == IF a.nx = BLOCK_SIZE
                  THEN [Block(a, a.x) EXCEPT !.nx = 0]
                  ELSE a
         IN  [d |-> b, p |-> From(p, n)]
    ELSE [d |-> self, p |-> p]

\* WriteBlocks that hands only the first block of p to the compression
WriteBlocksFirstOnly(st) ==
    IF Len(st.p) >= BLOCK_SIZE
    THEN LET n == Len(st.p) - (Len(st.p) % BLOCK_SIZE)
         IN  [d |-> Block(st.d, SubSeq(st.p, 1, BLOCK_SIZE)), p |-> From(st.p, n)]
    ELSE st

\* `if p.len() >= BLOCK_SIZE { ... }`: the full blocks of p compressed from p;
\* `p.len() & !(BLOCK_SIZE - 1)` clears the low seven bits of the length
WriteBlocks(st) ==
    IF Len(st.p) >= BLOCK_SIZE
    THEN LET n == Len(st.p) - (Len(st.p) % BLOCK_SIZE)
         IN  [d |-> Block(st.d, SubSeq(st.p, 1, n)), p |-> From(st.p, n)]
    ELSE st

\* `if !p.is_empty() { self.nx = copy(&mut self.x, p); }`
WriteTail(st) ==
    IF st.p # << >>
    THEN LET c == Copy(st.d.x, st.p)
         IN  [st.d EXCEPT !.x = c.dst, !.nx = c.len]
    ELSE st.d

\* the hasher after write(p)
WriteState(self, p) == WriteTail(WriteBlocks(WriteFill(self, p)))

\* the value write(p) returns: `nn as u8`
WriteRet(p) == Len(p) % 256

---------------------------------------------------------------------------
(* Blake512::reset *)

\* reset without `self.nx = 0`
ResetStateKeepNx(self) ==
    [self EXCEPT !.h = IF self.hash_size = 384 THEN IV384 ELSE IV512,
                 !.t = Zero64,
                 !.nullt = FALSE,
                 !.blocks = << >>]

\* reset that also zeroes the salt
ResetStateClearSalt(self) ==
    [self EXCEPT !.h = IF self.hash_size = 384 THEN IV384 ELSE IV512,
                 !.s = <<Zero64, Zero64, Zero64, Zero64>>,
                 !.t = Zero64,
                 !.nx = 0,
                 !.nullt = FALSE,
                 !.blocks = << >>]

ResetState(self) ==
    [self EXCEPT !.h = IF self.hash_size = 384 THEN IV384 ELSE IV512,
                 !.t = Zero64,
                 !.nx = 0,
                 !.nullt = FALSE,
                 !.blocks = <<>>]

---------------------------------------------------------------------------
(* Blake512::sum *)

\* `pad` without `pad[0] = 0x80`
PadArrayUnmarked == Zeros(BLOCK_SIZE + 1)

\* the 129-byte array `pad` of sum: pad[0] = 0x80, the rest zero
PadArray == <<128>> \o Zeros(BLOCK_SIZE)

\* pad[a..b]
Pad(a, b) == SubSeq(PadArray, a + 1, b)

\* the length field with its low eight bytes least significant first
LenFieldLittleEndian(l) ==
    Zeros(8) \o <<ShrU8(l, 0), ShrU8(l, 8), ShrU8(l, 16), ShrU8(l, 24),
                  ShrU8(l, 32), ShrU8(l, 40), ShrU8(l, 48), ShrU8(l, 56)>>

\* the 16-byte length field
LenField(l) ==
    Zeros(8) \o <<ShrU8(l, 56), ShrU8(l, 48), ShrU8(l, 40), ShrU8(l, 32),
                  ShrU8(l, 24), ShrU8(l, 16), ShrU8(l, 8), ShrU8(l, 0)>>

\* SumSteps without `d.t -= 888` before the second block of padding
SumStepsKeepCounter(nx, len) ==
    ( IF nx = 111
      THEN << [op |-> "sub", n |-> 8],
              [op |-> "write", p |-> <<129>>] >>
      ELSE ( IF nx < 111
             THEN (IF nx = 0 THEN << [op |-> "nullt"] >> ELSE << >>)
                  \o << [op |-> "wrapping_sub", n |-> 888 - (nx * 8)],
                        [op |-> "write", p |-> Pad(0, 111 - nx)] >>
             ELSE << [op |-> "sub", n |-> 1024 - (nx * 8)],
                     [op |-> "write", p |-> Pad(0, 128 - nx)],
                     [op |-> "write", p |-> Pad(1, 112)],
                     [op |-> "nullt"] >> )
           \o << [op |-> "write", p |-> <<1>>],
                 [op |-> "sub", n |-> 8] >> )
    \o << [op |-> "sub", n |-> 128],
          [op |-> "write", p |-> len] >>

\* the statements sum executes on the clone d after computing `len`, in order:
\*   sub n           d.t -= n
\*   wrapping_sub n  d.t = d.t.wrapping_sub(n)
\*   nullt           d.nullt = true
\*   write p         d.write(p)
SumSteps(nx, len) ==
    ( IF nx = 111
      THEN << [op |-> "sub", n |-> 8],
              [op |-> "write", p |-> <<129>>] >>
      ELSE ( IF nx < 111
             THEN (IF nx = 0 THEN << [op |-> "nullt"] >> ELSE << >>)
                  \o << [op |-> "wrapping_sub", n |-> 888 - (nx * 8)],
                        [op |-> "write", p |-> Pad(0, 111 - nx)] >>
             ELSE << [op |-> "sub", n |-> 1024 - (nx * 8)],
                     [op |-> "write", p |-> Pad(0, 128 - nx)],
                     [op |-> "sub", n |-> 888],
                     [op |-> "write", p |-> Pad(1, 112)],
                     [op |-> "nullt"] >> )
           \o << [op |-> "write", p |-> <<1>>],
                 [op |-> "sub", n |-> 8] >> )
    \o << [op |-> "sub", n |-> 128],
          [op |-> "write", p |-> len] >>

\* the failure of a `-=` or `+` that leaves 0..2^64-1 in a build that checks
OverflowPanic == "panic: arithmetic overflow"

\* one statement on the clone.  A `-=` that goes below zero panics when the
\* build checks overflow and wraps otherwise; once panicked nothing else runs.
SumStep(m, st, checks) ==
    IF m.panicked THEN m
    ELSE IF st.op = "sub"
    THEN LET under == Lt64(m.d.t, U64Of(st.n))
         IN  IF under /\ checks
             THEN [m EXCEPT !.panicked = TRUE, !.underflow = TRUE]
             ELSE [m EXCEPT !.d.t = WrappingSub(@, U64Of(st.n)),
                            !.underflow = @ \/ under]
    ELSE IF st.op = "wrapping_sub"
    THEN [m EXCEPT !.d.t = WrappingSub(@, U64Of(st.n))]
    ELSE IF st.op = "nullt"
    THEN [m EXCEPT !.d.nullt = TRUE]
    ELSE [m EXCEPT !.d = WriteState(@, st.p)]

RECURSIVE SumRun(_, _, _)
SumRun(m, steps, checks) ==
    IF steps = << >> THEN m
    ELSE SumRun(SumStep(m, Head(steps), checks), Tail(steps), checks)

\* Digest with every word serialised least significant byte first
DigestLittleEndian(d) ==
    [j \in 1..Size(d) |->
        IF ((j - 1) \div 8) + 1 <= d.hash_size \div 64
        THEN ShrU8(d.h[((j - 1) \div 8) + 1], 8 * ((j - 1) % 8))
        ELSE 0]

\* the bytes of the first hash_size >> 6 words of d.h, most significant first
Digest(d) ==
    [j \in 1..Size(d) |->
        IF ((j - 1) \div 8) + 1 <= d.hash_size \div 64
        THEN ShrU8(d.h[((j - 1) \div 8) + 1], 56 - 8 * ((j - 1) % 8))
        ELSE 0]

\* sum working on self itself instead of on `self.clone()`
SumInPlace(self, in_, checks) ==
    LET d    == self
        nx   == d.nx
        over == AddOverflows(d.t, U64Of(nx * 8))
        l    == WrappingAdd(d.t, U64Of(nx * 8))
        m0   == [d |-> d, panicked |-> over /\ checks, underflow |-> FALSE]
        m    == SumRun(m0, SumSteps(nx, LenField(l)), checks)
    IN  [ self      |-> m.d,
          d         |-> m.d,
          panicked  |-> m.panicked,
          underflow |-> m.underflow,
          out       |-> IF m.panicked THEN << >> ELSE in_ \o Digest(m.d) ]

\* sum that sets the skip flag on self as well as on the clone
SumLeavesFlag(self, in_, checks) ==
    LET d    == [self EXCEPT !.blocks = << >>]
        nx   == d.nx
        over == AddOverflows(d.t, U64Of(nx * 8))
        l    == WrappingAdd(d.t, U64Of(nx * 8))
        m0   == [d |-> d, panicked |-> over /\ checks, underflow |-> FALSE]
        m    == SumRun(m0, SumSteps(nx, LenField(l)), checks)
    IN  [ self      |-> [self EXCEPT !.nullt = m.d.nullt],
          d         |-> m.d,
          panicked  |-> m.panicked,
          underflow |-> m.underflow,
          out       |-> IF m.panicked THEN << >> ELSE in_ \o Digest(m.d) ]

\* sum(in_) on self in a build with or without overflow checks: the caller's
\* value afterwards, the clone when sum returns or panics, whether it panicked,
\* whether a `-=` went below zero, and the bytes returned
Sum(self, in_, checks) ==
    LET d    == [self EXCEPT !.blocks = << >>]
        nx   == d.nx
        over == AddOverflows(d.t, U64Of(nx * 8))
        l    == WrappingAdd(d.t, U64Of(nx * 8))
        m0   == [d |-> d, panicked |-> over /\ checks, underflow |-> FALSE]
        m    == SumRun(m0, SumSteps(nx, LenField(l)), checks)
    IN  [ self      |-> self,
          d         |-> m.d,
          panicked  |-> m.panicked,
          underflow |-> m.underflow,
          out       |-> IF m.panicked THEN << >> ELSE in_ \o Digest(m.d) ]

---------------------------------------------------------------------------
(* Blake512::set_salt *)

\* the failure of set_salt: `panic!("salt length must be 32 bytes")`
InvalidSaltLength == "panic: salt length must be 32 bytes"

\* the length check of set_salt written as `s.len() < 32`
SaltRejectedShort(s) == Len(s) < 32

\* set_salt panics ("salt length must be 32 bytes") before touching self
SaltRejected(s) == Len(s) # 32

\* set_salt without `j += 8`: every word decoded from the first eight bytes
SetSaltStateSameWord(self, s) ==
    IF SaltRejected(s) THEN self
    ELSE LET word(i) == FromBytes(SubSeq(s, 1, 8))
         IN  [self EXCEPT !.s = <<word(1), word(2), word(3), word(4)>>]

SetSaltState(self, s) ==
    IF SaltRejected(s) THEN self
    ELSE LET word(i) == FromBytes(SubSeq(s, 8 * (i - 1) + 1, 8 * i))
         IN  [self EXCEPT !.s = <<word(1), word(2), word(3), word(4)>>]

---------------------------------------------------------------------------
(* The caller: any interleaving of the public calls on one hasher.  The     *)
(* caller streams one long input in chunks: byte i of the stream is        *)
(* StreamByte(i), and a write hands over the next n bytes of it.           *)

StreamByte(i) == (i * 7 + i \div 128) % 256

\* the next n bytes of the stream after the first k
Data(k, n) == [j \in 1..n |-> StreamByte(k + j)]

\* the bytes handed to set_salt, of length n
SaltData(n) == [j \in 1..n |-> (7 * j + 1) % 256]

\* the record of a call: its name, its argument, the caller's hasher before
\* the call, the value write returns, the bytes sum returns, how the call
\* ended, and whether a `-=` underflowed
Call(op, arg, before, ret, out, outcome, underflow) ==
    [op |-> op, arg |-> arg, before |-> before, ret |-> ret, out |-> out,
     outcome |-> outcome, underflow |-> underflow]

\* Blake512::default() is the only constructor; hash_size is a private field.
\* `arg` is the output size the caller would like to select.
Init ==
    /\ hasher = Default
    /\ msg = << >>
    /\ fed = 0
    /\ resalted = FALSE
    /\ \E size \in {384, 512} :
          last = Call("default", size, Default, 0, << >>, "ok", FALSE)
    /\ nwrites = 0
    /\ vector = 0

DoWrite(n) ==
    /\ nwrites < MaxWrites
    /\ LET p == Data(fed, n)
       IN  /\ hasher' = WriteState(hasher, p)
           /\ msg' = msg \o p
           /\ last' = Call("write", p, hasher, WriteRet(p), << >>, "ok", FALSE)
    /\ fed' = fed + n
    /\ nwrites' = nwrites + 1
    /\ UNCHANGED <<resalted, vector>>

\* sum in a build with overflow checks (debug profile) or without (release)
DoSum(in_, checks) ==
    /\ \E r \in {Sum(hasher, in_, checks)} :
           /\ hasher' = r.self
           /\ last' = Call("sum", in_, hasher, 0, r.out,
                           IF r.panicked THEN OverflowPanic ELSE "ok", r.underflow)
    /\ UNCHANGED <<msg, fed, resalted, nwrites, vector>>

DoReset ==
    /\ hasher' = ResetState(hasher)
    /\ msg' = << >>
    /\ resalted' = FALSE
    /\ last' = Call("reset", << >>, hasher, 0, << >>, "ok", FALSE)
    /\ UNCHANGED <<fed, nwrites, vector>>

DoSetSalt(n) ==
    /\ LET s == SaltData(n)
       IN  /\ hasher' = SetSaltState(hasher, s)
           /\ resalted' = (resalted \/ (~SaltRejected(s) /\ hasher.blocks # << >>))
           /\ last' = Call("set_salt", s, hasher, 0, << >>,
                           IF SaltRejected(s) THEN InvalidSaltLength ELSE "ok", FALSE)
    /\ UNCHANGED <<msg, fed, nwrites, vector>>

Next ==
    \/ \E n \in WriteLens : DoWrite(n)
    \/ \E in_ \in Prefixes, checks \in BOOLEAN : DoSum(in_, checks)
    \/ DoReset
    \/ \E n \in SaltLens : DoSetSalt(n)

Spec == Init /\ [][Next]_vars

---------------------------------------------------------------------------
(* The tests of the crate as callers: test_vectors_512 and test_512_c.     *)
(* The caller constructs a hasher and makes the calls of the tests in any  *)
(* order: it writes the slices of the test input that the test writes,     *)
(* each at its place in the input, finalizes, and resets to start the      *)
(* input over.                                                             *)

MaxKatWrites == 3

\* tests::VECTORS_512: the expected digest, as the hexadecimal digits of the
\* string, and the UTF-8 bytes of the input string
VECTORS_512 ==
    <<
       [ hex  |-> << 1, 15, 7, 14, 2, 6, 15, 6, 3, 11, 6, 10, 13, 2, 5, 10, 0, 8, 9, 6, 15, 13, 9, 7, 8, 15, 13, 0, 5, 0, 10, 1,
                     7, 6, 6, 3, 9, 1, 13, 2, 15, 13, 0, 4, 7, 1, 10, 7, 7, 10, 15, 11, 9, 7, 5, 14, 5, 0, 3, 4, 11, 7, 10, 13,
                     2, 13, 9, 12, 12, 15, 8, 13, 15, 11, 4, 7, 10, 11, 11, 11, 14, 6, 5, 6, 14, 1, 11, 8, 2, 15, 11, 12, 6, 3, 4, 11,
                     10, 4, 2, 12, 14, 1, 8, 6, 14, 8, 13, 12, 5, 14, 1, 12, 14, 0, 9, 10, 8, 8, 5, 13, 4, 1, 15, 4, 3, 4, 5, 1 >>,
         data |-> << 84, 104, 101, 32, 113, 117, 105, 99, 107, 32, 98, 114, 111, 119, 110, 32,
                     102, 111, 120, 32, 106, 117, 109, 112, 115, 32, 111, 118, 101, 114, 32, 116,
                     104, 101, 32, 108, 97, 122, 121, 32, 100, 111, 103 >> ],
       [ hex  |-> << 7, 11, 15, 8, 0, 5, 13, 0, 13, 8, 13, 14, 3, 6, 8, 0, 2, 11, 8, 8, 2, 14, 6, 5, 13, 0, 5, 1, 5, 10, 10, 7,
                     6, 8, 2, 10, 2, 11, 14, 9, 7, 10, 9, 13, 9, 14, 12, 1, 3, 9, 9, 15, 4, 11, 14, 2, 14, 15, 15, 7, 13, 14, 0, 7,
                     6, 8, 4, 13, 7, 0, 9, 9, 1, 2, 4, 12, 8, 10, 12, 8, 1, 12, 1, 12, 7, 12, 2, 0, 0, 13, 2, 4, 11, 10, 6, 8,
                     12, 6, 2, 2, 2, 14, 7, 5, 0, 6, 2, 14, 0, 4, 15, 14, 11, 0, 14, 9, 13, 13, 5, 8, 9, 10, 10, 6, 14, 3, 11, 7 >>,
         data |-> << 66, 76, 65, 75, 69 >> ],
       [ hex  |-> << 10, 8, 12, 15, 11, 11, 13, 7, 3, 7, 2, 6, 0, 6, 2, 13, 15, 0, 12, 6, 8, 6, 4, 13, 13, 10, 6, 5, 13, 14, 15, 14,
                     5, 8, 14, 15, 0, 12, 12, 5, 2, 10, 5, 6, 2, 5, 0, 9, 0, 15, 10, 1, 7, 6, 0, 1, 14, 1, 14, 14, 12, 13, 1, 11,
                     6, 2, 8, 14, 9, 4, 15, 3, 9, 6, 10, 14, 4, 0, 2, 10, 0, 0, 10, 12, 12, 9, 14, 10, 11, 7, 7, 11, 4, 13, 4, 12,
                     2, 14, 8, 5, 2, 10, 10, 10, 10, 2, 5, 10, 6, 3, 6, 13, 8, 0, 10, 15, 3, 15, 12, 7, 9, 1, 3, 14, 15, 5, 11, 8 >>,
         data |-> << >> ],
       [ hex  |-> << 1, 9, 11, 11, 3, 10, 4, 4, 8, 15, 4, 14, 14, 15, 6, 15, 0, 11, 9, 3, 7, 4, 8, 1, 7, 14, 9, 6, 12, 7, 12, 8,
                     4, 8, 13, 9, 6, 15, 2, 0, 12, 5, 10, 3, 14, 4, 11, 8, 0, 8, 1, 7, 3, 13, 9, 7, 10, 14, 13, 14, 5, 2, 12, 11,
                     3, 9, 6, 5, 0, 6, 10, 12, 2, 0, 14, 1, 7, 4, 10, 1, 13, 5, 3, 13, 9, 14, 5, 1, 14, 4, 4, 3, 14, 7, 4, 4,
                     7, 8, 5, 5, 15, 2, 12, 9, 14, 8, 12, 6, 14, 4, 2, 4, 7, 15, 10, 8, 14, 4, 15, 5, 4, 12, 13, 10, 5, 8, 9, 7 >>,
         data |-> << 39, 66, 76, 65, 75, 69, 32, 119, 105, 110, 115, 32, 83, 72, 65, 45,
                     51, 33, 32, 72, 111, 111, 114, 97, 121, 33, 33, 33, 39, 32, 40, 73,
                     32, 104, 97, 118, 101, 32, 116, 105, 109, 101, 32, 109, 97, 99, 104, 105,
                     110, 101, 41 >> ],
       [ hex  |-> << 8, 12, 13, 8, 10, 7, 11, 15, 2, 9, 5, 3, 13, 13, 2, 3, 6, 3, 7, 1, 10, 0, 7, 10, 3, 12, 9, 14, 7, 0, 3, 2,
                     5, 10, 11, 13, 7, 6, 9, 2, 2, 13, 12, 11, 4, 3, 4, 12, 6, 8, 5, 3, 2, 7, 6, 0, 14, 5, 3, 6, 12, 15, 2, 10,
                     9, 5, 5, 15, 14, 8, 12, 4, 0, 13, 9, 0, 12, 11, 3, 8, 5, 0, 6, 15, 12, 13, 14, 3, 0, 11, 4, 7, 13, 10, 8, 14,
                     14, 8, 8, 3, 5, 0, 6, 4, 14, 0, 9, 1, 4, 2, 7, 13, 8, 5, 4, 12, 14, 1, 13, 15, 10, 13, 9, 7, 2, 6, 3, 4 >>,
         data |-> << 71, 111 >> ],
       [ hex  |-> << 4, 6, 5, 13, 0, 4, 7, 13, 9, 6, 9, 5, 15, 2, 5, 8, 10, 4, 7, 10, 15, 7, 11, 9, 4, 10, 0, 3, 13, 9, 0, 3,
                     12, 11, 6, 0, 10, 14, 1, 2, 8, 6, 15, 2, 6, 3, 10, 10, 12, 8, 6, 2, 8, 7, 7, 4, 14, 14, 9, 0, 8, 2, 8, 11,
                     14, 10, 3, 1, 15, 11, 7, 15, 14, 1, 13, 3, 3, 8, 5, 10, 15, 3, 6, 4, 0, 8, 0, 10, 3, 1, 7, 1, 1, 5, 12, 8,
                     13, 15, 8, 5, 9, 6, 12, 3, 12, 6, 0, 8, 13, 8, 13, 14, 7, 7, 11, 9, 5, 11, 15, 15, 7, 0, 2, 10, 3, 9, 8, 4 >>,
         data |-> << 72, 69, 76, 80, 33, 32, 73, 39, 109, 32, 116, 114, 97, 112, 112, 101,
                     100, 32, 105, 110, 32, 104, 97, 115, 104, 33 >> ],
       [ hex  |-> << 6, 8, 3, 7, 6, 15, 14, 3, 0, 3, 14, 14, 0, 9, 12, 3, 10, 2, 2, 0, 14, 14, 3, 3, 0, 11, 12, 12, 12, 9, 15, 10,
                     9, 15, 11, 10, 6, 13, 12, 4, 1, 7, 4, 1, 5, 0, 7, 15, 1, 9, 5, 15, 5, 4, 5, 7, 15, 15, 10, 7, 5, 8, 6, 4,
                     0, 7, 6, 15, 7, 1, 11, 12, 0, 7, 14, 9, 4, 6, 2, 0, 1, 2, 3, 14, 12, 2, 4, 15, 7, 0, 4, 5, 8, 12, 2, 11,
                     10, 3, 13, 13, 1, 15, 10, 3, 1, 10, 7, 15, 14, 15, 12, 0, 3, 6, 13, 4, 3, 0, 12, 9, 6, 2, 12, 0, 9, 6, 9, 11 >>,
         data |-> << 76, 111, 114, 101, 109, 32, 105, 112, 115, 117, 109, 32, 100, 111, 108, 111,
                     114, 32, 115, 105, 116, 32, 97, 109, 101, 116, 44, 32, 99, 111, 110, 115,
                     101, 99, 116, 101, 116, 117, 114, 32, 97, 100, 105, 112, 105, 115, 99, 105,
                     110, 103, 32, 101, 108, 105, 116, 46, 32, 68, 111, 110, 101, 99, 32, 97,
                     32, 100, 105, 97, 109, 32, 108, 101, 99, 116, 117, 115, 46, 32, 83, 101,
                     100, 32, 115, 105, 116, 32, 97, 109, 101, 116, 32, 105, 112, 115, 117, 109,
                     32, 109, 97, 117, 114, 105, 115, 46, 32, 77, 97, 101, 99, 101, 110, 97,
                     115, 32, 99, 111, 110, 103, 117, 101, 32, 108, 105, 103, 117, 108, 97, 32,
                     97, 99, 32, 113, 117, 97, 109, 32, 118, 105, 118, 101, 114, 114, 97, 32,
                     110, 101, 99, 32, 99, 111, 110, 115, 101, 99, 116, 101, 116, 117, 114, 32,
                     97, 110, 116, 101, 32, 104, 101, 110, 100, 114, 101, 114, 105, 116, 46, 32,
                     68, 111, 110, 101, 99, 32, 101, 116, 32, 109, 111, 108, 108, 105, 115, 32,
                     100, 111, 108, 111, 114, 46, 32, 80, 114, 97, 101, 115, 101, 110, 116, 32,
                     101, 116, 32, 100, 105, 97, 109, 32, 101, 103, 101, 116, 32, 108, 105, 98,
                     101, 114, 111, 32, 101, 103, 101, 115, 116, 97, 115, 32, 109, 97, 116, 116,
                     105, 115, 32, 115, 105, 116, 32, 97, 109, 101, 116, 32, 118, 105, 116, 97,
                     101, 32, 97, 117, 103, 117, 101, 46, 32, 78, 97, 109, 32, 116, 105, 110,
                     99, 105, 100, 117, 110, 116, 32, 99, 111, 110, 103, 117, 101, 32, 101, 110,
                     105, 109, 44, 32, 117, 116, 32, 112, 111, 114, 116, 97, 32, 108, 111, 114,
                     101, 109, 32, 108, 97, 99, 105, 110, 105, 97, 32, 99, 111, 110, 115, 101,
                     99, 116, 101, 116, 117, 114, 46, 32, 68, 111, 110, 101, 99, 32, 117, 116,
                     32, 108, 105, 98, 101, 114, 111, 32, 115, 101, 100, 32, 97, 114, 99, 117,
                     32, 118, 101, 104, 105, 99, 117, 108, 97, 32, 117, 108, 116, 114, 105, 99,
                     105, 101, 115, 32, 97, 32, 110, 111, 110, 32, 116, 111, 114, 116, 111, 114,
                     46, 32, 76, 111, 114, 101, 109, 32, 105, 112, 115, 117, 109, 32, 100, 111,
                     108, 111, 114, 32, 115, 105, 116, 32, 97, 109, 101, 116, 44, 32, 99, 111,
                     110, 115, 101, 99, 116, 101, 116, 117, 114, 32, 97, 100, 105, 112, 105, 115,
                     99, 105, 110, 103, 32, 101, 108, 105, 116, 46, 32, 65, 101, 110, 101, 97,
                     110, 32, 117, 116, 32, 103, 114, 97, 118, 105, 100, 97, 32, 108, 111, 114,
                     101, 109, 46, 32, 85, 116, 32, 116, 117, 114, 112, 105, 115, 32, 102, 101,
                     108, 105, 115, 44, 32, 112, 117, 108, 118, 105, 110, 97, 114, 32, 97, 32,
                     115, 101, 109, 112, 101, 114, 32, 115, 101, 100, 44, 32, 97, 100, 105, 112,
                     105, 115, 99, 105, 110, 103, 32, 105, 100, 32, 100, 111, 108, 111, 114, 46,
                     32, 80, 101, 108, 108, 101, 110, 116, 101, 115, 113, 117, 101, 32, 97, 117,
                     99, 116, 111, 114, 32, 110, 105, 115, 105, 32, 105, 100, 32, 109, 97, 103,
                     110, 97, 32, 99, 111, 110, 115, 101, 113, 117, 97, 116, 32, 115, 97, 103,
                     105, 116, 116, 105, 115, 46, 32, 67, 117, 114, 97, 98, 105, 116, 117, 114,
                     32, 100, 97, 112, 105, 98, 117, 115, 32, 101, 110, 105, 109, 32, 115, 105,
                     116, 32, 97, 109, 101, 116, 32, 101, 108, 105, 116, 32, 112, 104, 97, 114,
                     101, 116, 114, 97, 32, 116, 105, 110, 99, 105, 100, 117, 110, 116, 32, 102,
                     101, 117, 103, 105, 97, 116, 32, 110, 105, 115, 108, 32, 105, 109, 112, 101,
                     114, 100, 105, 101, 116, 46, 32, 85, 116, 32, 99, 111, 110, 118, 97, 108,
                     108, 105, 115, 32, 108, 105, 98, 101, 114, 111, 32, 105, 110, 32, 117, 114,
                     110, 97, 32, 117, 108, 116, 114, 105, 99, 101, 115, 32, 97, 99, 99, 117,
                     109, 115, 97, 110, 46, 32, 68, 111, 110, 101, 99, 32, 115, 101, 100, 32,
                     111, 100, 105, 111, 32, 101, 114, 111, 115, 46, 32, 68, 111, 110, 101, 99,
                     32, 118, 105, 118, 101, 114, 114, 97, 32, 109, 105, 32, 113, 117, 105, 115,
                     32, 113, 117, 97, 109, 32, 112, 117, 108, 118, 105, 110, 97, 114, 32, 97,
                     116, 32, 109, 97, 108, 101, 115, 117, 97, 100, 97, 32, 97, 114, 99, 117,
                     32, 114, 104, 111, 110, 99, 117, 115, 46, 32, 67, 117, 109, 32, 115, 111,
                     99, 105, 105, 115, 32, 110, 97, 116, 111, 113, 117, 101, 32, 112, 101, 110,
                     97, 116, 105, 98, 117, 115, 32, 101, 116, 32, 109, 97, 103, 110, 105, 115,
                     32, 100, 105, 115, 32, 112, 97, 114, 116, 117, 114, 105, 101, 110, 116, 32,
                     109, 111, 110, 116, 101, 115, 44, 32, 110, 97, 115, 99, 101, 116, 117, 114,
                     32, 114, 105, 100, 105, 99, 117, 108, 117, 115, 32, 109, 117, 115, 46, 32,
                     73, 110, 32, 114, 117, 116, 114, 117, 109, 32, 97, 99, 99, 117, 109, 115,
                     97, 110, 32, 117, 108, 116, 114, 105, 99, 105, 101, 115, 46, 32, 77, 97,
                     117, 114, 105, 115, 32, 118, 105, 116, 97, 101, 32, 110, 105, 115, 105, 32,
                     97, 116, 32, 115, 101, 109, 32, 102, 97, 99, 105, 108, 105, 115, 105, 115,
                     32, 115, 101, 109, 112, 101, 114, 32, 97, 99, 32, 105, 110, 32, 101, 115,
                     116, 46 >> ] >>

\* test_512_c: `let hashes = vec![..]`, the expected digests after 1 and after
\* 144 zero bytes
hashes ==
    << << 151, 150, 21, 135, 246, 217, 112, 250, 186, 109, 36, 120, 4, 93, 230, 209,
          250, 189, 9, 182, 26, 229, 9, 50, 5, 77, 82, 188, 41, 211, 27, 228,
          255, 145, 2, 185, 246, 158, 43, 189, 184, 59, 225, 61, 75, 156, 6, 9,
          30, 95, 160, 180, 139, 208, 129, 182, 52, 5, 139, 224, 236, 73, 190, 179 >>,
       << 49, 55, 23, 214, 8, 233, 207, 117, 141, 203, 30, 176, 240, 195, 207, 159,
          193, 80, 178, 213, 0, 251, 51, 245, 28, 82, 175, 201, 157, 53, 138, 47,
          19, 116, 184, 163, 139, 186, 121, 116, 231, 246, 239, 121, 202, 177, 111, 34,
          206, 30, 100, 157, 110, 1, 173, 149, 137, 194, 19, 4, 93, 84, 93, 222 >> >>

\* test_512_c: `let data = vec![0u8; 144]`
data == Zeros(144)

\* hex::encode: two hexadecimal digits per byte, the high one first
HexEncode(b) ==
    [i \in 1..(2 * Len(b)) |->
        IF i % 2 = 1 THEN b[(i + 1) \div 2] \div 16 ELSE b[i \div 2] % 16]

\* the input hashed by the test run `vector`: one of the seven strings, or data
TestInput(v) == IF v <= Len(VECTORS_512) THEN VECTORS_512[v].data ELSE data

KatInit ==
    /\ hasher = Default
    /\ msg = << >>
    /\ fed = 0
    /\ resalted = FALSE
    /\ last = Call("default", 512, Default, 0, << >>, "ok", FALSE)
    /\ nwrites = 0
    /\ vector \in 1..(Len(VECTORS_512) + 1)

\* the slices [from..to] of its input that a test writes: test_vectors the
\* whole string; test_512_c `data[..1]`, `data[1..]` and `data`
TestSlices(v) ==
    IF v <= Len(VECTORS_512)
    THEN {<<0, Len(VECTORS_512[v].data)>>}
    ELSE {<<0, 1>>, <<1, Len(data)>>, <<0, Len(data)>>}

\* h.write(&input[from..to]) where `from` bytes were written since the start
\* or the last reset
KatWrite(from, to) ==
    /\ nwrites < MaxKatWrites
    /\ Len(msg) = from
    /\ LET p == SubSeq(TestInput(vector), from + 1, to)
       IN  /\ hasher' = WriteState(hasher, p)
           /\ msg' = msg \o p
           /\ last' = Call("write", p, hasher, WriteRet(p), << >>, "ok", FALSE)
    /\ fed' = fed + (to - from)
    /\ nwrites' = nwrites + 1
    /\ UNCHANGED <<resalted, vector>>

KatNext ==
    \/ \E sl \in TestSlices(vector) : KatWrite(sl[1], sl[2])
    \/ \E checks \in BOOLEAN : DoSum(<< >>, checks)
    \/ DoReset

SpecKAT == KatInit /\ [][KatNext]_vars

---------------------------------------------------------------------------
(* Finalization at every buffered count: the caller constructs a hasher,   *)
(* writes the first n bytes of the stream in one write, for any n below    *)
(* MaxFullBlocks + 1 blocks, and finalizes.                                *)

MaxFullBlocks == 2

WriteOnce(n) ==
    /\ nwrites = 0
    /\ DoWrite(n)

SumNext ==
    \/ \E n \in 0..((MaxFullBlocks + 1) * BLOCK_SIZE - 1) : WriteOnce(n)
    \/ \E in_ \in Prefixes, checks \in BOOLEAN : DoSum(in_, checks)

SpecSum == Init /\ [][SumNext]_vars

---------------------------------------------------------------------------
(* Reference runs used by the properties *)

\* a freshly constructed hasher with the salt of the caller's hasher
Fresh == [Default EXCEPT !.s = hasher.s]

\* a fresh hasher that has received msg in one single write
OneWrite == WriteState(Fresh, msg)

\* what a caller can observe of a hasher: chain, counter, buffered count,
\* buffered bytes, and the blocks compressed with the counter used for each
Obs(d) ==
    [h |-> d.h, t |-> d.t, nx |-> d.nx, x |-> SubSeq(d.x, 1, d.nx),
     blocks |-> d.blocks]

\* sum returns the same bytes on d and on e, after compressing the same blocks
\* with the same counters and underflowing on both or on neither (so that a
\* build with overflow checks panics on both or on neither)
SameSum(d, e) ==
    LET r == Sum(d, << >>, FALSE)
        q == Sum(e, << >>, FALSE)
    IN  r.out = q.out /\ r.underflow = q.underflow /\ r.d.blocks = q.d.blocks

\* the last call was sum and returned what sum returns on d
LastSumIsSumOf(d) ==
    \E checks \in BOOLEAN :
        LET r == Sum(d, last.arg, checks)
        IN  /\ last.out = r.out
            /\ last.outcome = (IF r.panicked THEN OverflowPanic ELSE "ok")
            /\ last.underflow = r.underflow

\* n as a u64, for n below 2^31
IsU64(w, n) == w = <<0, 0, n \div Limb, n % Limb>>

\* the blocks the clone of sum compresses, in order, when sum is called on the
\* caller's hasher in a build with or without overflow checks
Final(checks) == Sum(hasher, << >>, checks).d.blocks

\* the total bit length at entry to sum: `d.t + (nx << 3)`
BitLen == WrappingAdd(hasher.t, U64Of(8 * hasher.nx))

\* the concatenation of the blocks of a list of compressions
RECURSIVE Bytes(_)
Bytes(bl) == IF bl = << >> THEN << >> ELSE Head(bl).m \o Bytes(Tail(bl))

---------------------------------------------------------------------------
(* Properties *)

\* C1: write-split invariance.  A hasher that was never reset and has received
\* the bytes b in any number of writes (so also in two, split at any k) has
\* the chain, counter, buffered count, buffered bytes and compressed blocks,
\* each with its counter, of a fresh hasher that received b in one write, and
\* sum returns the same bytes on both.
C1_WriteSplitInvariance ==
    (fed = Len(msg) /\ ~resalted) =>
        /\ Obs(hasher) = Obs(OneWrite)
        /\ SameSum(hasher, OneWrite)

\* two writes on a never-reset hasher, the second non-empty and crossing a
\* block boundary from a partly filled buffer
C1_Witness ==
    /\ fed = Len(msg) /\ ~resalted /\ hasher.s = Default.s
    /\ nwrites = 2 /\ last.op = "write"
    /\ 0 < Len(last.arg) /\ Len(last.arg) < Len(msg)
    /\ (Len(msg) - Len(last.arg)) % BLOCK_SIZE # 0
    /\ hasher.blocks # << >>

\* C2: non-destructive finalization.  A sum call leaves every field of the
\* caller's hasher unchanged (h, s, t, nullt, nx, x, hash_size); calling sum
\* again returns the same; and a sum after write(a); sum(); write(b) returns
\* what it returns on a fresh hasher after the same writes without the sum in
\* between.
C2_SumNonDestructive ==
    last.op = "sum" =>
        /\ hasher = last.before
        /\ LastSumIsSumOf(hasher)
        /\ ~resalted => LastSumIsSumOf(OneWrite)

\* sum has returned a digest on a hasher holding compressed blocks and
\* buffered bytes
C2_Witness ==
    /\ last.op = "sum" /\ last.outcome = "ok"
    /\ nwrites = MaxWrites
    /\ hasher.blocks # << >> /\ hasher.nx > 0

\* C3: reset equivalence.  Right after reset the chain, counter, skip flag and
\* buffered count are those of a freshly constructed hasher with the same
\* hash size and salt; and after write(a); reset(); write(b) the hasher has
\* the observable state, the compressed blocks and the digest of a fresh
\* hasher after write(b), whatever a left in the buffer.
C3_ResetEquivalence ==
    /\ last.op = "reset" =>
          /\ hasher.h = Fresh.h /\ hasher.t = Fresh.t
          /\ hasher.nullt = Fresh.nullt /\ hasher.nx = Fresh.nx
          /\ hasher.hash_size = Fresh.hash_size
    /\ (fed > Len(msg) /\ ~resalted) =>
          /\ Obs(hasher) = Obs(OneWrite)
          /\ SameSum(hasher, OneWrite)
          /\ last.op = "sum" => LastSumIsSumOf(OneWrite)

\* write(a) leaving stale bytes in the buffer, reset(), write(b) with a block
\* compressed, then sum()
C3_Witness ==
    /\ last.op = "sum" /\ last.outcome = "ok"
    /\ fed > Len(msg) /\ (fed - Len(msg)) % BLOCK_SIZE # 0
    /\ Len(msg) > BLOCK_SIZE
    /\ ~resalted

\* C4: write returns the number of bytes it was given.
C4_WriteReturnsLen == last.op = "write" => last.ret = Len(last.arg)

\* C5: no subtraction on the bit counter goes below zero, so that write and
\* sum never fail, in a build with overflow checks or without.
C5_NoUnderflow ==
    last.op \in {"write", "sum"} => (last.outcome = "ok" /\ ~last.underflow)

\* C6: set_salt with a length other than 32 fails with InvalidSaltLength and
\* leaves every field of the hasher unchanged.
C6_SaltRejection ==
    (last.op = "set_salt" /\ Len(last.arg) # 32) =>
        (last.outcome = InvalidSaltLength /\ hasher = last.before)

\* a salt of a wrong length was rejected on a hasher holding compressed blocks
\* and buffered bytes
C6_Witness ==
    /\ last.op = "set_salt" /\ Len(last.arg) # 32
    /\ last.outcome = InvalidSaltLength
    /\ hasher.blocks # << >> /\ hasher.nx > 0

\* C7: construction yields the output size the caller selects, 384 or 512,
\* with the matching initial chain value.
C7_BothModesSelectable ==
    last.op = "default" =>
        /\ hasher.hash_size = last.arg
        /\ hasher.h = (IF last.arg = 384 THEN IV384 ELSE IV512)

\* C8: sum returns its prefix unchanged followed by hash_size / 8 bytes (64 in
\* 512-bit mode, 48 in 384-bit mode), which are the first hash_size / 64 words
\* of the finalized chain, in word order, each most significant byte first.
C8_SumOutput ==
    (last.op = "sum" /\ last.outcome = "ok") =>
        LET n     == Len(last.arg)
            final == Sum(hasher, last.arg, FALSE).d.h
        IN  /\ Len(last.out) = n + hasher.hash_size \div 8
            /\ hasher.hash_size = 512 => Len(last.out) = n + 64
            /\ hasher.hash_size = 384 => Len(last.out) = n + 48
            /\ SubSeq(last.out, 1, n) = last.arg
            /\ \A j \in 1..Len(last.out) : last.out[j] \in 0..255
            /\ \A i \in 1..(hasher.hash_size \div 64) :
                  FromBytes(SubSeq(last.out, n + 8 * (i - 1) + 1, n + 8 * i)) = final[i]

\* sum has returned with a non-empty prefix on a hasher holding compressed
\* blocks and buffered bytes
C8_Witness ==
    /\ last.op = "sum" /\ last.outcome = "ok"
    /\ last.arg # << >>
    /\ hasher.blocks # << >> /\ hasher.nx > 0

\* C9: between public calls the buffered byte count is in 0..127.
C9_BufferBound == hasher.nx >= 0 /\ hasher.nx < BLOCK_SIZE

\* a write that filled a partly filled buffer exactly, so that the block was
\* dispatched from the buffer and nothing was left to buffer
C9_Witness ==
    /\ last.op = "write" /\ Len(last.arg) > 0 /\ Len(last.arg) < BLOCK_SIZE
    /\ Len(msg) >= BLOCK_SIZE /\ Len(msg) % BLOCK_SIZE = 0
    /\ hasher.nx = 0

\* C10: counter and buffer bookkeeping.  After writes totalling n bytes since
\* construction or the last reset, t = 1024 * (n div 128), nx = n mod 128,
\* x[0..nx] holds the last nx bytes written, and the blocks compressed are the
\* first n div 128 consecutive 128-byte chunks of the input, in order, once
\* each, the k-th with counter 1024 * k.
C10_Bookkeeping ==
    LET n == Len(msg)
    IN  /\ IsU64(hasher.t, 1024 * (n \div BLOCK_SIZE))
        /\ hasher.nx = n % BLOCK_SIZE
        /\ SubSeq(hasher.x, 1, hasher.nx) = SubSeq(msg, n - hasher.nx + 1, n)
        /\ Len(hasher.blocks) = n \div BLOCK_SIZE
        /\ \A k \in 1..Len(hasher.blocks) :
              /\ hasher.blocks[k].m = SubSeq(msg, BLOCK_SIZE * (k - 1) + 1, BLOCK_SIZE * k)
              /\ IsU64(hasher.blocks[k].t, 1024 * k)

\* several writes, two blocks or more compressed and bytes left in the buffer
C10_Witness ==
    /\ nwrites >= 2 /\ last.op = "write"
    /\ Len(hasher.blocks) >= 2
    /\ hasher.nx > 0

\* C11: known answers.  sum with an empty prefix on a hasher that has received
\* exactly one of the test strings of VECTORS_512 since construction or the
\* last reset returns the 64 bytes whose hexadecimal encoding is the digest
\* listed with it; after 1 zero byte it returns hashes[0], and after 144 zero
\* bytes hashes[1], whether the 144 bytes came as 1 + 143 with a sum in
\* between or, after reset, in one write.
C11_KnownAnswers ==
    (last.op = "sum" /\ last.arg = << >>) =>
        /\ \A i \in 1..Len(VECTORS_512) :
              msg = VECTORS_512[i].data =>
                  /\ last.outcome = "ok"
                  /\ Len(last.out) = 64
                  /\ HexEncode(last.out) = VECTORS_512[i].hex
        /\ msg = SubSeq(data, 1, 1) => last.out = hashes[1]
        /\ msg = data => last.out = hashes[2]

\* test_512_c to its end: 1 zero byte, 143 more, reset, 144 in one write, sum
C11_Witness ==
    /\ vector = Len(VECTORS_512) + 1
    /\ last.op = "sum" /\ last.outcome = "ok"
    /\ msg = data /\ fed = 2 * Len(data) /\ nwrites = 3
    /\ last.out = hashes[2]

\* C12: padding case analysis.  In every state and either build, sum on the
\* caller's hasher compresses one block when nx <= 111 and two when nx > 111
\* and leaves the clone's buffer empty; the bytes compressed are the nx
\* buffered bytes, then 0x80, zero bytes and 0x01 (0x81 alone when nx = 111),
\* the 0x01 or 0x81 at offset 111 of the last block, then sixteen bytes of
\* length field at offsets 112..127.
C12_PaddingCases ==
    \A checks \in BOOLEAN :
        LET r    == Sum(hasher, << >>, checks)
            nx   == hasher.nx
            fin  == r.d.blocks
            all  == Bytes(fin)
            n    == Len(all)
        IN  /\ ~r.panicked
            /\ Len(fin) = (IF nx <= 111 THEN 1 ELSE 2)
            /\ r.d.nx = 0
            /\ SubSeq(all, 1, nx) = SubSeq(hasher.x, 1, nx)
            /\ all[nx + 1] = (IF nx = 111 THEN 129 ELSE 128)
            /\ all[n - 16] = (IF nx = 111 THEN 129 ELSE 1)
            /\ \A j \in (nx + 2)..(n - 17) : all[j] = 0
            /\ SubSeq(all, n - 15, n) = LenField(BitLen)

\* C13: the counter at the finalization compressions.  In every state and
\* either build, every block the clone of sum compresses is compressed with
\* the counter L = t + 8 * nx (modulo 2^64), the bit length of the message,
\* which is also the counter of the last block write compressed when nx = 0;
\* and the skip flag is set at exactly the compressions of blocks without
\* message bytes: the only one when nx = 0, the second one when nx > 111.
C13_FinalCounters ==
    /\ IsU64(BitLen, 8 * Len(msg))
    /\ (hasher.nx = 0 /\ hasher.blocks # << >>) =>
           hasher.blocks[Len(hasher.blocks)].t = BitLen
    /\ \A checks \in BOOLEAN :
           \A k \in 1..Len(Final(checks)) :
               /\ Final(checks)[k].t = BitLen
               /\ Final(checks)[k].nullt <=>
                      \/ hasher.nx = 0 /\ k = 1
                      \/ hasher.nx > 111 /\ k = 2

\* sum has returned on a hasher with blocks compressed and more than 111
\* bytes buffered: two finalization compressions, the second with the flag
C13_Witness ==
    /\ last.op = "sum" /\ last.outcome = "ok" /\ hasher = last.before
    /\ hasher.nx > 111 /\ hasher.blocks # << >>
    /\ Len(Final(TRUE)) = 2 /\ Final(TRUE)[2].nullt

\* C14: the length field.  In every state and either build, the last sixteen
\* bytes sum compresses are eight zero bytes followed by the eight bytes of
\* L = t + 8 * nx, taken at entry to sum, most significant first; L is eight
\* times the number of bytes written since construction or the last reset.
C14_LengthField ==
    \A checks \in BOOLEAN :
        LET fin   == Final(checks)
            field == SubSeq(fin[Len(fin)].m, 113, 128)
        IN  fin # << >> =>
               /\ SubSeq(field, 1, 8) = Zeros(8)
               /\ FromBytes(SubSeq(field, 9, 16)) = BitLen
               /\ \A j \in 9..12 : field[j] = 0
               /\ ((field[13] * 256 + field[14]) * 256 + field[15]) * 256 + field[16]
                      = 8 * Len(msg)

\* sum has returned on a hasher that has received more than two blocks of
\* bytes, the last one partly filled, so that the length takes two bytes
C14_Witness ==
    /\ last.op = "sum" /\ last.outcome = "ok" /\ hasher = last.before
    /\ Len(msg) > 2 * BLOCK_SIZE /\ hasher.nx > 0
    /\ Final(TRUE) # << >>

\* C15: the frame of reset.  reset sets h to the IV of the current hash_size
\* (IV384 for 384, IV512 otherwise), t and nx to 0 and nullt to false, and
\* leaves the salt and hash_size as they were; so, unless set_salt was called
\* between two compressions, every block compressed since the last reset was
\* compressed with the salt the hasher holds, whether it was set before the
\* reset or after it.
C15_ResetFrame ==
    /\ last.op = "reset" =>
          /\ hasher.h = (IF last.before.hash_size = 384 THEN IV384 ELSE IV512)
          /\ hasher.t = Zero64 /\ hasher.nx = 0 /\ hasher.nullt = FALSE
          /\ hasher.s = last.before.s
          /\ hasher.hash_size = last.before.hash_size
    /\ ~resalted => \A k \in 1..Len(hasher.blocks) : hasher.blocks[k].s = hasher.s

\* reset of a hasher that holds a salt, compressed blocks and buffered bytes
C15_Witness ==
    /\ last.op = "reset"
    /\ last.before.s # Default.s
    /\ last.before.blocks # << >> /\ last.before.nx > 0
    /\ hasher.s = last.before.s

\* C16: the frame of set_salt.  set_salt with 32 bytes succeeds, makes s[i]
\* the word whose bytes, most significant first, are bytes 8*i .. 8*i+7 of the
\* input, and leaves h, t, nullt, nx, the buffer and hash_size unchanged.
C16_SetSaltFrame ==
    (last.op = "set_salt" /\ Len(last.arg) = 32) =>
        /\ last.outcome = "ok"
        /\ \A i \in 1..4 :
              /\ \A k \in 1..4 : hasher.s[i][k] \in 0..(Limb - 1)
              /\ \A j \in 1..8 :
                    ShrU8(hasher.s[i], 56 - 8 * (j - 1)) = last.arg[8 * (i - 1) + j]
        /\ [hasher EXCEPT !.s = last.before.s] = last.before

\* a salt of 32 bytes set on a hasher that holds compressed blocks and
\* buffered bytes and had the default salt
C16_Witness ==
    /\ last.op = "set_salt" /\ Len(last.arg) = 32 /\ last.outcome = "ok"
    /\ last.before.blocks # << >> /\ last.before.nx > 0
    /\ last.before.s = Default.s /\ hasher.s # Default.s

\* C17: between public calls the skip flag of the caller's hasher is false,
\* and every block a write of the caller compressed was compressed with the
\* flag false, that is with the counter.
C17_SkipFlagPrivate ==
    /\ hasher.nullt = FALSE
    /\ \A k \in 1..Len(hasher.blocks) : hasher.blocks[k].nullt = FALSE

\* sum has returned on a hasher with compressed blocks and an empty buffer:
\* the clone finished with the flag set, the caller's hasher has it clear
C17_Witness ==
    /\ last.op = "sum" /\ last.outcome = "ok"
    /\ hasher.nx = 0 /\ hasher.blocks # << >>
    /\ Sum(last.before, last.arg, FALSE).d.nullt
    /\ hasher.nullt = FALSE

====
